---- MODULE Spec2Model ----
(***************************************************************************)
(* Verification model of the financial chatbot's persistence and context   *)
(* subsystem: the Artifact Store and the chat history store                *)
(* (data_store.py), the Group Registry, the Legacy Migrator, the Context   *)
(* Assembler and the conversation handlers (app.py), and the retry loop of *)
(* ClaudeClient.ask (claude_client.py).                                    *)
(*                                                                         *)
(* File names and group names are sequences of symbols.  A symbol is one   *)
(* character ("A", "_", "."), or one of the fixed character runs "pdf",    *)
(* "json" and "L" (the legacy group name, five Hangul characters), none of *)
(* which contains "_" or ".".                                              *)
(***************************************************************************)
EXTENDS Integers, Sequences, FiniteSets, TLC

VARIABLES
    companies,      \* persistent_data/companies.json: name -> entry
    store,          \* data/extracted (DATA_DIR of data_store.py): key -> record
    extracted,      \* ./extracted_data (the directory app.py globs): name -> record
    backup,         \* ./backup_legacy_data: name -> record
    pdfs,           \* persistent_data/pdf_files/<company>/<file>: set of <<company, file>>
    pdfdirs,        \* persistent_data/pdf_files/<company> directories
    selected,       \* st.session_state.selected_companies (a list)
    financial_context, \* st.session_state.financial_context
    warned,         \* st.warning issued by the last context assembly
    pc,             \* position of the running handler
    op,             \* locals of the running handler
    last,           \* the last completed handler and what it returned
    snap,           \* persisted state when the running/last handler started
    tc,             \* the last call of truncate_context and its result
    history,        \* data/history (HISTORY_DIR): session id -> stored session file
    session,        \* st.session_state: current_session, messages, client
    now,            \* the wall clock read by datetime.now(), in seconds
    stamp,          \* the sub-second part of the clock, as a count of reads
    api_key,        \* whether ANTHROPIC_API_KEY is set in the environment
    registered      \* every name companies.json has held so far

\* the chat side of the state
sessvars == <<history, session, now, stamp, api_key>>

vars == <<companies, store, extracted, backup, pdfs, pdfdirs, selected,
          financial_context, warned, pc, op, last, snap, tc,
          history, session, now, stamp, api_key, registered>>

(***************************************************************************)
(* Strings                                                                 *)
(***************************************************************************)
US  == "_"
DOT == "."
JSON == <<".", "json">>

\* len(): number of characters of a symbol / of a string
CharLen(c) == CASE c = "L" -> 5 [] c = "pdf" -> 3 [] c = "json" -> 4
                  [] c \in {"2022", "2023"} -> 4 [] OTHER -> 1

RECURSIVE StrLen(_)
StrLen(s) == IF s = <<>> THEN 0 ELSE CharLen(Head(s)) + StrLen(Tail(s))

\* the order of the symbols as Python compares them, for sorted(): the code
\* point of the first character, and 2022 before 2023
Rank(c) == CASE c = "."    -> 46
             [] c = "2022" -> 50
             [] c = "2023" -> 51
             [] c = "A"    -> 65
             [] c = "B"    -> 66
             [] c = "N"    -> 78
             [] c = "X"    -> 88
             [] c = "_"    -> 95
             [] c = "a"    -> 97
             [] c = "b"    -> 98
             [] c = "json" -> 106
             [] c = "pdf"  -> 112
             [] c = "v"    -> 118
             [] c = "L"    -> 44592
             [] OTHER      -> 0

startswith(s, p) == Len(p) <= Len(s) /\ SubSeq(s, 1, Len(p)) = p

endswith(s, p) == Len(p) <= Len(s) /\ SubSeq(s, Len(s) - Len(p) + 1, Len(s)) = p

Contains(s, c) == \E i \in 1..Len(s) : s[i] = c

\* str.split('_')[0]
SplitFirst(s) ==
    IF Contains(s, US)
    THEN SubSeq(s, 1, (CHOOSE i \in 1..Len(s) :
                          s[i] = US /\ \A j \in 1..(i-1) : s[j] # US) - 1)
    ELSE s

\* index of the last ".", 0 when there is none
LastDot(s) ==
    IF Contains(s, DOT)
    THEN CHOOSE i \in 1..Len(s) : s[i] = DOT /\ \A j \in (i+1)..Len(s) : s[j] # DOT
    ELSE 0

\* os.path.splitext(s)[0]: cut at the last dot unless only dots precede it
SplitextRoot(s) ==
    LET i == LastDot(s) IN
    IF i = 0 \/ (\A j \in 1..(i-1) : s[j] = DOT) THEN s ELSE SubSeq(s, 1, i - 1)

\* pathlib PurePath.stem: cut at the last dot unless it is first or last
Stem(s) ==
    LET i == LastDot(s) IN
    IF i > 1 /\ i < Len(s) THEN SubSeq(s, 1, i - 1) ELSE s

\* str.replace('.json', ''): every occurrence is removed, left to right
RECURSIVE RemoveJson(_)
RemoveJson(s) ==
    IF s = <<>> THEN <<>>
    ELSE IF startswith(s, JSON) THEN RemoveJson(SubSeq(s, 3, Len(s)))
    ELSE <<Head(s)>> \o RemoveJson(Tail(s))

\* first index at which p occurs in s, 0 when it does not
FindFirst(s, p) ==
    LET hits == {i \in 1..(Len(s) - Len(p) + 1) : SubSeq(s, i, i + Len(p) - 1) = p}
    IN IF hits = {} THEN 0 ELSE CHOOSE i \in hits : \A j \in hits : i <= j

\* str.replace(p, r, 1)
ReplaceFirst(s, p, r) ==
    LET i == FindFirst(s, p) IN
    IF i = 0 THEN s
    ELSE SubSeq(s, 1, i - 1) \o r \o SubSeq(s, i + Len(p), Len(s))

\* s < t in Python's string order
RECURSIVE LexLess(_, _)
LexLess(s, t) ==
    IF t = <<>> THEN FALSE
    ELSE IF s = <<>> THEN TRUE
    ELSE IF Rank(Head(s)) < Rank(Head(t)) THEN TRUE
    ELSE IF Rank(Head(s)) > Rank(Head(t)) THEN FALSE
    ELSE LexLess(Tail(s), Tail(t))

\* sorted(S) for a set of strings
RECURSIVE Sorted(_)
Sorted(S) ==
    IF S = {} THEN <<>>
    ELSE LET m == CHOOSE x \in S : \A y \in S \ {x} : LexLess(x, y)
         IN <<m>> \o Sorted(S \ {m})

Range(q) == {q[i] : i \in 1..Len(q)}

\* a dict / directory without one key
Without(f, k) == [x \in (DOMAIN f) \ {k} |-> f[x]]

\* a dict / directory with one key set
With(f, k, v) == [x \in (DOMAIN f) \cup {k} |-> IF x = k THEN v ELSE f[x]]

Empty == [x \in {} |-> 0]

\* a missing name (a key that is not in the record, an argument not given)
None == <<"None">>

\* a missing number
NoText == -1

(***************************************************************************)
(* Program constants                                                       *)
(***************************************************************************)
MAX_CONTEXT_TOKENS == 150000
CHARS_PER_TOKEN == 4
TEXT_LIMIT == 10000
NOTICE_LEN == 28            \* len("\n\n... [...]"), the truncation notice
legacy_company == <<"L">>   \* the name of the legacy group

(***************************************************************************)
(* Records.  A record of either directory is a JSON document:              *)
(*   ok                   it parses as a JSON object                       *)
(*   company_name         the field, or None when the key is missing       *)
(*   original_filename    the field, or None                               *)
(*   text_content         characters of the extracted text                 *)
(*   tables               characters of the formatted tables, 0 = no table *)
(*   text                 characters of the field 'text', NoText if missing *)
(*   migrated_from_legacy the flag                                         *)
(***************************************************************************)
\* a file json.load cannot read (cut short or not JSON)
Unreadable ==
    [ok |-> FALSE, company_name |-> None, original_filename |-> None,
     text_content |-> 5, tables |-> 0, text |-> NoText,
     migrated_from_legacy |-> FALSE]

MkRec(cn, of, tl, tb) ==
    [ok |-> TRUE, company_name |-> cn, original_filename |-> of,
     text_content |-> tl, tables |-> tb, text |-> NoText,
     migrated_from_legacy |-> FALSE]

(***************************************************************************)
(* data_store.py: the Artifact Store                                       *)
(***************************************************************************)
JsonName(filename) == SplitextRoot(filename) \o JSON

save_extracted_data(st, data, filename) == With(st, JsonName(filename), data)

\* the Optional result is a sequence of at most one record
load_extracted_data(st, filename) ==
    IF JsonName(filename) \in DOMAIN st THEN <<st[JsonName(filename)]>> ELSE <<>>

list_saved_files(st) == Sorted({k \in DOMAIN st : endswith(k, JSON)})

delete_extracted_data(st, filename) ==
    IF JsonName(filename) \in DOMAIN st THEN Without(st, JsonName(filename)) ELSE st

(***************************************************************************)
(* Chat history store (data_store.py)                                      *)
(***************************************************************************)
\* no session id: "current_session" not in st.session_state
NoId == -1

\* st.session_state before init_session_state has run
NoSession == [current |-> NoId, messages |-> <<>>, client |-> FALSE]

\* one message of a conversation
Msg(role, content) == [role |-> role, content |-> content]

\* the content of data/history/<session_id>.json after a complete save
SessionFile(session_id, updated_at, messages) ==
    [ok |-> TRUE, session_id |-> session_id, updated_at |-> updated_at,
     messages |-> messages]

\* a session file that open(path, "w") has emptied or json.dump has written
\* in part: json.load raises on it
BrokenFile == [ok |-> FALSE, session_id |-> NoId, updated_at |-> 0, messages |-> <<>>]

\* updated_at is datetime.now().isoformat(): t is the clock read of the save
save_chat_history(h, messages, session_id, t) ==
    With(h, session_id, SessionFile(session_id, t, messages))

\* json.load raises on one of the listed files
Raises(h, ids) == \E i \in ids \cap DOMAIN h : ~h[i].ok

load_chat_history(h, session_id) ==
    IF session_id \notin DOMAIN h THEN <<>> ELSE h[session_id].messages

\* sorted(sessions, key=updated_at, reverse=True); the stored updated_at
\* values are distinct
RECURSIVE SortedByUpdate(_, _)
SortedByUpdate(h, ids) ==
    IF ids = {} THEN <<>>
    ELSE LET top == CHOOSE i \in ids :
                        \A j \in ids : h[j].updated_at <= h[i].updated_at
         IN <<[session_id |-> h[top].session_id,
               updated_at |-> h[top].updated_at,
               message_count |-> Len(h[top].messages)]>>
            \o SortedByUpdate(h, ids \ {top})

Reverse(q) == [i \in 1..Len(q) |-> q[Len(q) + 1 - i]]

\* the listing sorted without reverse=True: oldest first
list_chat_sessions_ascending(h) == Reverse(SortedByUpdate(h, DOMAIN h))

list_chat_sessions(h) == SortedByUpdate(h, DOMAIN h)

delete_chat_history(h, session_id) == Without(h, session_id)

(***************************************************************************)
(* app.py: token estimate and truncation                                   *)
(***************************************************************************)
estimate_tokens(len) == IF len = 0 THEN 0 ELSE len \div CHARS_PER_TOKEN

\* int(len * (max_tokens / estimated) * 0.95) is the floor of
\*   len * max_tokens * 95 / (estimated * 100).
\* With len = 4 * estimated + r it is 19 * max_tokens / 5 plus
\* 19 * r * max_tokens / (20 * estimated), which keeps the products small.
MaxCharsNum(len, max_tokens) ==
    4 * ((19 * max_tokens) % 5) * estimate_tokens(len)
    + 19 * (len % CHARS_PER_TOKEN) * max_tokens

MaxCharsExact(len, max_tokens) ==
    (19 * max_tokens) \div 5
    + MaxCharsNum(len, max_tokens) \div (20 * estimate_tokens(len))

\* the double product lands one below the floor only when the exact value is
\* a positive integer
MaxCharsSet(len, max_tokens) ==
    LET ex == MaxCharsExact(len, max_tokens) IN
    {ex} \cup (IF ex > 0 /\ MaxCharsNum(len, max_tokens) % (20 * estimate_tokens(len)) = 0
               THEN {ex - 1} ELSE {})

\* a context string: its parts, its length, the characters of it that are
\* kept, and whether the truncation notice is appended
MkContext(parts, len) == [parts |-> parts, len |-> len, kept |-> len, notice |-> FALSE]

ContextLen(c) == c.kept + (IF c.notice THEN NOTICE_LEN ELSE 0)

Min(a, b) == IF a < b THEN a ELSE b

\* truncate_context that appends the notice without cutting the text
truncate_context_uncut(context, max_tokens, slack) ==
    LET len == ContextLen(context) IN
    IF estimate_tokens(len) <= max_tokens
    THEN [context |-> context, was_truncated |-> FALSE]
    ELSE [context |-> [context EXCEPT !.notice = TRUE], was_truncated |-> TRUE]

\* truncate_context; slack is 0, or 1 when the double product rounds down
truncate_context(context, max_tokens, slack) ==
    LET len == ContextLen(context)
        estimated_tokens == estimate_tokens(len)
    IN IF estimated_tokens <= max_tokens
       THEN [context |-> context, was_truncated |-> FALSE]
       ELSE LET max_chars == MaxCharsExact(len, max_tokens) - slack
            IN [context |-> [context EXCEPT !.kept = Min(max_chars, len), !.notice = TRUE],
                was_truncated |-> TRUE]

Slacks(context, max_tokens) ==
    LET len == ContextLen(context) IN
    IF estimate_tokens(len) <= max_tokens THEN {0}
    ELSE {MaxCharsExact(len, max_tokens) - m : m \in MaxCharsSet(len, max_tokens)}

(***************************************************************************)
(* pdf_processor.py / data_store.py: the context of all stored data        *)
(***************************************************************************)
\* one part of a context string: what it is, which store key, group name and
\* original filename it names, how many characters of the artifact's
\* extracted text it carries (body) and its length (chars)
Part(k, key, cn, of, body, chars) ==
    [k |-> k, key |-> key, company_name |-> cn, original_filename |-> of,
     body |-> body, chars |-> chars]

RECURSIVE SumChars(_)
SumChars(parts) == IF parts = <<>> THEN 0 ELSE Head(parts).chars + SumChars(Tail(parts))

\* "\n".join(parts)
JoinLen(parts) == IF parts = <<>> THEN 0 ELSE SumChars(parts) + Len(parts) - 1

\* get_financial_context(data): the text cut at 10000 characters, then the tables
FinancialLen(data) ==
    LET t == IF data.text_content > 0
             THEN <<17, Min(data.text_content, TEXT_LIMIT)>> ELSE <<>>
        b == IF data.tables > 0 THEN <<14, data.tables>> ELSE <<>>
        q == t \o b
        n == IF t = <<>> THEN 0 ELSE t[1] + t[2]
        m == IF b = <<>> THEN 0 ELSE b[1] + b[2]
    IN IF q = <<>> THEN 0 ELSE n + m + Len(q) - 1

get_financial_context(key, data) ==
    Part("financial", key, None, None, Min(data.text_content, TEXT_LIMIT),
         FinancialLen(data))

RECURSIVE AllParts(_, _)
AllParts(st, files) ==
    IF files = <<>> THEN <<>>
    ELSE LET filename == Head(files)
             data == load_extracted_data(st, filename)
         IN (IF data # <<>>
             THEN <<Part("file_header", filename, None, None, 0, 127 + StrLen(filename)),
                    get_financial_context(filename, data[1])>>
             ELSE <<>>) \o AllParts(st, Tail(files))

NoDataAll == MkContext(<<Part("no_data", None, None, None, 0, 17)>>, 17)
NoDataSelected == MkContext(<<Part("no_data", None, None, None, 0, 18)>>, 18)

get_all_data_context(st) ==
    LET files == list_saved_files(st) IN
    IF files = <<>> THEN NoDataAll
    ELSE LET parts == AllParts(st, files) IN MkContext(parts, JoinLen(parts))

(***************************************************************************)
(* app.py: Group Registry and file helpers                                 *)
(***************************************************************************)
\* a registry entry (created_at, a time stamp, is left out)
Entry(n, am) == [file_count |-> n, auto_migrated |-> am]

get_all_company_names(reg) == DOMAIN reg

get_company_folders(reg) == Sorted(DOMAIN reg)

add_company(reg, company_name) ==
    IF company_name \notin DOMAIN reg
    THEN With(reg, company_name, Entry(0, FALSE)) ELSE reg

\* the set behind sorted(set(company_files))
CompanyFileSet(st, company_name) ==
    LET pre == company_name \o <<US>>
        orig(filename) == SubSeq(filename, Len(pre) + 1, Len(filename))
        strip(o) == IF endswith(o, JSON) THEN SubSeq(o, 1, Len(o) - 2) ELSE o
    IN {strip(orig(f)) : f \in {g \in Range(list_saved_files(st)) : startswith(g, pre)}}

get_company_files(st, company_name) == Sorted(CompanyFileSet(st, company_name))

update_company_file_count(reg, st, company_name) ==
    IF company_name \in DOMAIN reg
    THEN [reg EXCEPT ![company_name].file_count = Len(get_company_files(st, company_name))]
    ELSE reg

delete_pdf_file(files, company_name, filename) == files \ {<<company_name, filename>>}

delete_company_folder(files, company_name) == {f \in files : f[1] # company_name}

(***************************************************************************)
(* app.py: Context Assembler                                               *)
(***************************************************************************)
\* for filename in saved_files: for company in selected: if startswith(...)
RECURSIVE MatchOne(_, _, _)
MatchOne(st, filename, sel) ==
    IF sel = <<>> THEN <<>>
    ELSE (IF startswith(filename, Head(sel) \o <<US>>)
             /\ load_extracted_data(st, filename) # <<>>
          THEN <<filename>> ELSE <<>>) \o MatchOne(st, filename, Tail(sel))

RECURSIVE SelectedData(_, _, _)
SelectedData(st, files, sel) ==
    IF files = <<>> THEN <<>>
    ELSE MatchOne(st, Head(files), sel) \o SelectedData(st, Tail(files), sel)

\* data.get('company_name', '알 수 없음'), data.get('original_filename', '')
HeaderLen(data) ==
    14 + (IF data.company_name = None THEN 7 ELSE StrLen(data.company_name))
       + (IF data.original_filename = None THEN 0 ELSE StrLen(data.original_filename))

\* data.get('text', '')
TextField(data) == IF data.text = NoText THEN 0 ELSE data.text

RECURSIVE SelectedParts(_, _)
SelectedParts(st, keys) ==
    IF keys = <<>> THEN <<>>
    ELSE LET data == load_extracted_data(st, Head(keys))[1] IN
         <<Part("header", Head(keys), data.company_name, data.original_filename,
                0, HeaderLen(data)),
           Part("text", Head(keys), None, None, TextField(data), TextField(data))>>
         \o SelectedParts(st, Tail(keys))

\* the concatenated text before truncate_context
full_context(st, sel) ==
    IF sel = <<>> THEN get_all_data_context(st)
    ELSE LET keys == SelectedData(st, list_saved_files(st), sel) IN
         IF keys = <<>> THEN NoDataSelected
         ELSE LET parts == SelectedParts(st, keys) IN MkContext(parts, JoinLen(parts))

\* get_selected_companies_context: the string it returns and whether it
\* called st.warning; was_truncated itself is not returned
get_selected_companies_context(st, sel, slack) ==
    LET full == full_context(st, sel)
        keys == SelectedData(st, list_saved_files(st), sel)
    IN IF sel = <<>>
       THEN [context |-> truncate_context(full, MAX_CONTEXT_TOKENS, slack).context,
             warning |-> FALSE]
       ELSE IF keys = <<>>
       THEN [context |-> NoDataSelected, warning |-> FALSE]
       ELSE LET r == truncate_context(full, MAX_CONTEXT_TOKENS, slack)
            IN [context |-> r.context, warning |-> r.was_truncated]

(***************************************************************************)
(* Bounds and inputs                                                       *)
(***************************************************************************)
MaxArtifacts == 2       \* uploads stop when the Artifact Store holds this many records
MaxPdfs == 2            \* uploads stop when this many PDFs are stored
MaxBatch == 1           \* files of one upload
MaxSelected == 2        \* groups ticked at once
MaxTruncLen == 400      \* longest context handed to truncate_context on its own
MaxTruncBudget == 60    \* largest budget handed to truncate_context on its own
MaxMessages == 4        \* a question is taken while the conversation stays this short
MaxSaves == 5           \* session saves of one run
MaxClock == 2           \* seconds the clock advances
MaxFailBatch == 2       \* files of one upload that may hold an unreadable PDF

NameA  == <<"A">>
NameAB == <<"A", "_", "B">>
NameN  == <<"N">>

\* an uploaded file: its name, whether the PDF can be parsed, the characters
\* of its text and of its formatted tables
Upl(name, ok, tl, tb) == [name |-> name, ok |-> ok, text_content |-> tl, tables |-> tb]

File2022 == <<"2022", ".", "pdf">>
File2023 == <<"2023", ".", "pdf">>
FileA   == <<"a", ".", "pdf">>
FileAV  == <<"a", ".", "v", ".", "pdf">>

(***************************************************************************)
(* The persisted state, and the record of the last handler                 *)
(***************************************************************************)
Persisted ==
    [companies |-> companies, store |-> store, extracted |-> extracted,
     backup |-> backup, pdfs |-> pdfs, pdfdirs |-> pdfdirs]

\* prev and prevret are kept for the migration only: the handler that
\* completed before it and what that one returned
Done(name, ret, a, b) ==
    [op |-> name, ret |-> ret, a |-> a, b |-> b,
     prev |-> IF name = "migrate" THEN last.op ELSE "",
     prevret |-> IF name = "migrate" /\ last.op = "migrate" THEN last.ret ELSE 0]

\* snap is taken when rename_company or the migration starts; the other
\* handlers drop it
NoSnap == [companies |-> Empty, store |-> Empty, extracted |-> Empty,
           backup |-> Empty, pdfs |-> {}, pdfdirs |-> {}]

NoOp == [kind |-> "none", old |-> None, new |-> None, todo |-> {}, cur |-> None,
         migrated |-> 0, seen |-> {}]

Idle == pc = "idle"

(***************************************************************************)
(* Handlers of main(): add a group, upload, delete a file, delete a group  *)
(***************************************************************************)
AddCompany(new_company) ==
    /\ Idle
    /\ companies' = add_company(companies, new_company)
    /\ last' = Done("add", new_company \notin DOMAIN companies, None, None)
    /\ snap' = NoSnap
    /\ UNCHANGED <<store, extracted, backup, pdfs, pdfdirs, selected,
                   financial_context, warned, pc, op, tc>>
    /\ UNCHANGED sessvars
    /\ registered' = registered \cup DOMAIN companies'

\* save_company_file that stores the record under the bare file name
save_company_file_unprefixed(S, uploaded_file, company_name) ==
    LET stored == [S EXCEPT !.pdfdirs = @ \cup {company_name},
                            !.pdfs = @ \cup {<<company_name, uploaded_file.name>>}]
        data == MkRec(company_name, uploaded_file.name,
                      uploaded_file.text_content, uploaded_file.tables)
        st2 == save_extracted_data(S.store, data, uploaded_file.name)
    IN IF ~uploaded_file.ok
       THEN [stored EXCEPT !.ok = FALSE]
       ELSE [stored EXCEPT !.store = st2,
                           !.companies = update_company_file_count(@, st2, company_name),
                           !.ok = TRUE]

\* save_pdf_permanently, process_pdf, save_extracted_data and
\* update_company_file_count on the state S; ok is the first returned value
save_company_file(S, uploaded_file, company_name) ==
    LET stored == [S EXCEPT !.pdfdirs = @ \cup {company_name},
                            !.pdfs = @ \cup {<<company_name, uploaded_file.name>>}]
        data == MkRec(company_name, uploaded_file.name,
                      uploaded_file.text_content, uploaded_file.tables)
        st2 == save_extracted_data(S.store, data,
                                   company_name \o <<US>> \o uploaded_file.name)
    IN IF ~uploaded_file.ok
       THEN [stored EXCEPT !.ok = FALSE]
       ELSE [stored EXCEPT !.store = st2,
                           !.companies = update_company_file_count(@, st2, company_name),
                           !.ok = TRUE]

\* for idx, file in enumerate(uploaded_files): save_company_file(...)
RECURSIVE UploadAll(_, _, _)
UploadAll(S, files, company_name) ==
    IF files = <<>> THEN S
    ELSE LET R == save_company_file(S, Head(files), company_name)
         IN UploadAll([R EXCEPT !.count = S.count + (IF R.ok THEN 1 ELSE 0)],
                      Tail(files), company_name)

Upload(selected_company, uploaded_files) ==
    /\ Idle
    /\ selected_company \in DOMAIN companies
    /\ uploaded_files # <<>>
    /\ Cardinality(DOMAIN store) < MaxArtifacts
    /\ Cardinality(pdfs) < MaxPdfs
    /\ LET R == UploadAll([companies |-> companies, store |-> store, pdfs |-> pdfs,
                           pdfdirs |-> pdfdirs, ok |-> TRUE, count |-> 0],
                          uploaded_files, selected_company)
       IN /\ companies' = R.companies
          /\ store' = R.store
          /\ pdfs' = R.pdfs
          /\ pdfdirs' = R.pdfdirs
          /\ last' = Done("upload", R.count, None, None)
    /\ snap' = NoSnap
    /\ UNCHANGED <<extracted, backup, selected, financial_context, warned, pc, op, tc>>
    /\ UNCHANGED sessvars
    /\ registered' = registered \cup DOMAIN companies'

\* the file delete button of one listed file
DeleteFile(company, file) ==
    /\ Idle
    /\ company \in DOMAIN companies
    /\ file \in CompanyFileSet(store, company)
    /\ pdfs' = delete_pdf_file(pdfs, company, file)
    /\ store' = delete_extracted_data(store, company \o <<US>> \o file)
    /\ companies' = update_company_file_count(companies, store', company)
    /\ last' = Done("delete_file", TRUE, company, file)
    /\ snap' = NoSnap
    /\ UNCHANGED <<extracted, backup, pdfdirs, selected, financial_context, warned,
                   pc, op, tc>>
    /\ UNCHANGED sessvars
    /\ registered' = registered \cup DOMAIN companies'

\* for f in files: delete_extracted_data(f"{company}_{f}")
RECURSIVE DeleteAll(_, _, _)
DeleteAll(st, company, files) ==
    IF files = <<>> THEN st
    ELSE DeleteAll(delete_extracted_data(st, company \o <<US>> \o Head(files)),
                   company, Tail(files))

\* the group delete button
DeleteGroup(company) ==
    /\ Idle
    /\ company \in DOMAIN companies
    /\ CompanyFileSet(store, company) # {}
    /\ store' = DeleteAll(store, company, get_company_files(store, company))
    /\ pdfs' = delete_company_folder(pdfs, company)
    /\ pdfdirs' = pdfdirs \ {company}
    /\ companies' = Without(companies, company)
    /\ last' = Done("delete_group", TRUE, company, None)
    /\ snap' = NoSnap
    /\ UNCHANGED <<extracted, backup, selected, financial_context, warned, pc, op, tc>>
    /\ UNCHANGED sessvars
    /\ registered' = registered \cup DOMAIN companies'

(***************************************************************************)
(* rename_company, one file operation per step                             *)
(***************************************************************************)
\* extracted_dir.glob(f"{old_name}_*.json")
GlobPrefixed(dir, name) ==
    {f \in DOMAIN dir : /\ startswith(f, name \o <<US>>)
                        /\ endswith(f, JSON)
                        /\ Len(f) >= Len(name) + 1 + Len(JSON)}

\* lines 200-205: the registry check and the registry rewrite
RenameStart(old_name, new_name) ==
    /\ Idle
    /\ old_name \in DOMAIN companies
    /\ CompanyFileSet(store, old_name) # {}
    /\ snap' = Persisted
    /\ IF old_name \notin DOMAIN companies \/ new_name \in DOMAIN companies
       THEN /\ last' = Done("rename", FALSE, old_name, new_name)
            /\ UNCHANGED <<companies, pc, op>>
       ELSE /\ companies' = With(Without(companies, old_name), new_name, companies[old_name])
            /\ op' = [NoOp EXCEPT !.kind = "rename", !.old = old_name, !.new = new_name,
                                  !.todo = GlobPrefixed(extracted, old_name)]
            /\ pc' = "rename_loop"
            /\ UNCHANGED last
    /\ UNCHANGED <<store, extracted, backup, pdfs, pdfdirs, selected,
                   financial_context, warned, tc>>
    /\ UNCHANGED sessvars
    /\ registered' = registered \cup DOMAIN companies'

\* lines 210-217: read the record, set company_name, write it under the new name
RenameCopy ==
    /\ pc = "rename_loop"
    /\ \E file \in op.todo :
         LET data == extracted[file]
             new_filename == ReplaceFirst(file, op.old \o <<US>>, op.new \o <<US>>)
         IN IF ~data.ok
            THEN /\ last' = Done("rename", FALSE, op.old, op.new)
                 /\ pc' = "idle"
                 /\ op' = NoOp
                 /\ UNCHANGED extracted
            ELSE /\ extracted' = With(extracted, new_filename,
                                      [data EXCEPT !.company_name = op.new])
                 /\ op' = [op EXCEPT !.cur = file]
                 /\ pc' = "rename_unlink"
                 /\ UNCHANGED last
    /\ UNCHANGED <<companies, store, backup, pdfs, pdfdirs, selected,
                   financial_context, warned, snap, tc>>
    /\ UNCHANGED sessvars
    /\ UNCHANGED registered

\* line 219: file.unlink()
RenameUnlink ==
    /\ pc = "rename_unlink"
    /\ extracted' = Without(extracted, op.cur)
    /\ op' = [op EXCEPT !.todo = @ \ {op.cur}, !.cur = None]
    /\ pc' = "rename_loop"
    /\ UNCHANGED <<companies, store, backup, pdfs, pdfdirs, selected,
                   financial_context, warned, last, snap, tc>>
    /\ UNCHANGED sessvars
    /\ UNCHANGED registered

\* lines 222-227: old_dir.rename(new_dir) and return True; the rename raises
\* when new_dir exists and holds files
RenameFinish ==
    /\ pc = "rename_loop"
    /\ op.todo = {}
    /\ IF op.old \in pdfdirs /\ (\E f \in pdfs : f[1] = op.new)
       THEN /\ last' = Done("rename", FALSE, op.old, op.new)
            /\ UNCHANGED <<pdfs, pdfdirs>>
       ELSE /\ last' = Done("rename", TRUE, op.old, op.new)
            /\ IF op.old \in pdfdirs
               THEN /\ pdfdirs' = (pdfdirs \ {op.old}) \cup {op.new}
                    /\ pdfs' = {IF f[1] = op.old THEN <<op.new, f[2]>> ELSE f : f \in pdfs}
               ELSE UNCHANGED <<pdfs, pdfdirs>>
    /\ pc' = "idle"
    /\ op' = NoOp
    /\ UNCHANGED <<companies, store, extracted, backup, selected,
                   financial_context, warned, snap, tc>>
    /\ UNCHANGED sessvars
    /\ UNCHANGED registered

\* an I/O error raised by a file operation of the loop or by the directory
\* rename: the except clause returns False
RenameFault ==
    /\ pc \in {"rename_loop", "rename_unlink"}
    /\ pc = "rename_loop" => (op.todo # {} \/ op.old \in pdfdirs)
    /\ last' = Done("rename", FALSE, op.old, op.new)
    /\ pc' = "idle"
    /\ op' = NoOp
    /\ UNCHANGED <<companies, store, extracted, backup, pdfs, pdfdirs, selected,
                   financial_context, warned, snap, tc>>
    /\ UNCHANGED sessvars
    /\ UNCHANGED registered

(***************************************************************************)
(* init_session_state and auto_migrate_legacy_data, one legacy file per    *)
(* step                                                                    *)
(***************************************************************************)
EmptyContext == MkContext(<<>>, 0)

\* lines 74-87: the files of extracted_data that count as legacy
LegacyFiles(dir, reg) ==
    {f \in DOMAIN dir :
        /\ endswith(f, JSON)
        /\ \/ ~Contains(Stem(f), US)
           \/ SplitFirst(Stem(f)) \notin get_all_company_names(reg)}

\* a new browser session: st.session_state starts empty
NewSession ==
    /\ Idle
    /\ pc' = "new"
    /\ selected' = <<>>
    /\ financial_context' = EmptyContext
    /\ warned' = FALSE
    /\ UNCHANGED <<companies, store, extracted, backup, pdfs, pdfdirs, op, last, snap, tc>>
    /\ session' = NoSession
    /\ UNCHANGED <<history, now, stamp, api_key>>
    /\ UNCHANGED registered

\* init_session_state up to the loop of auto_migrate_legacy_data: the session
\* pointer and the messages (lines 345-358), the client (lines 363-367), the
\* legacy files and the registry entry (lines 68-104)
SessionStart ==
    /\ pc = "new"
    /\ snap' = Persisted
    /\ LET legacy_files == LegacyFiles(extracted, companies) IN
       /\ companies' = IF legacy_files # {} /\ legacy_company \notin DOMAIN companies
                       THEN With(companies, legacy_company, Entry(0, TRUE))
                       ELSE companies
       /\ op' = [NoOp EXCEPT !.kind = "migrate", !.todo = legacy_files, !.old = {}]
    /\ pc' = "migrate_loop"
    /\ ~Raises(history, DOMAIN history)
    /\ LET sessions == list_chat_sessions(history)
           current_session == IF sessions # <<>> THEN sessions[1].session_id ELSE now
       IN session' = [current |-> current_session,
                      messages |-> load_chat_history(history, current_session),
                      client |-> api_key]
    /\ UNCHANGED <<store, extracted, backup, pdfs, pdfdirs, selected,
                   financial_context, warned, last, tc>>
    /\ UNCHANGED <<history, now, stamp, api_key>>
    /\ registered' = registered \cup DOMAIN companies'

\* the record written under the new name (lines 114-117)
Migrated(data, original_name) ==
    [data EXCEPT !.company_name = legacy_company,
                 !.original_filename = RemoveJson(original_name),
                 !.migrated_from_legacy = TRUE]

NewLegacyName(original_name) == legacy_company \o <<US>> \o original_name

\* the iteration without old_file.unlink(): the original stays in place
MigrateFileKeepsOriginal ==
    /\ pc = "migrate_loop"
    /\ \E old_file \in op.todo :
         LET data == extracted[old_file] IN
         IF ~data.ok
         THEN /\ op' = [op EXCEPT !.todo = @ \ {old_file}, !.seen = @ \cup {old_file},
                                   !.old = @ \cup {old_file}]
              /\ UNCHANGED <<extracted, backup>>
         ELSE IF data.company_name = legacy_company
         THEN /\ op' = [op EXCEPT !.todo = @ \ {old_file}, !.seen = @ \cup {old_file}]
              /\ UNCHANGED <<extracted, backup>>
         ELSE /\ extracted' = With(extracted, NewLegacyName(old_file),
                                   Migrated(data, old_file))
              /\ backup' = With(backup, old_file, data)
              /\ op' = [op EXCEPT !.todo = @ \ {old_file}, !.seen = @ \cup {old_file},
                                   !.migrated = @ + 1]
    /\ UNCHANGED <<companies, store, pdfs, pdfdirs, selected, financial_context,
                   warned, pc, last, snap, tc>>
    /\ UNCHANGED sessvars
    /\ UNCHANGED registered

\* one iteration of the loop (lines 105-135) without I/O error: an unreadable
\* record is reported and left, a record already tagged is skipped, any other
\* is written under the new name, copied to the backup and unlinked.
\* op.old collects the files whose iteration raised, op.seen those visited.
MigrateFile ==
    /\ pc = "migrate_loop"
    /\ \E old_file \in op.todo :
         LET data == extracted[old_file] IN
         IF ~data.ok
         THEN /\ op' = [op EXCEPT !.todo = @ \ {old_file}, !.seen = @ \cup {old_file},
                                   !.old = @ \cup {old_file}]
              /\ UNCHANGED <<extracted, backup>>
         ELSE IF data.company_name = legacy_company
         THEN /\ op' = [op EXCEPT !.todo = @ \ {old_file}, !.seen = @ \cup {old_file}]
              /\ UNCHANGED <<extracted, backup>>
         ELSE /\ extracted' = Without(With(extracted, NewLegacyName(old_file),
                                           Migrated(data, old_file)), old_file)
              /\ backup' = With(backup, old_file, data)
              /\ op' = [op EXCEPT !.todo = @ \ {old_file}, !.seen = @ \cup {old_file},
                                   !.migrated = @ + 1]
    /\ UNCHANGED <<companies, store, pdfs, pdfdirs, selected, financial_context,
                   warned, pc, last, snap, tc>>
    /\ UNCHANGED sessvars
    /\ UNCHANGED registered

\* the iteration with the unlink outside the try: a failed backup copy
\* still removes the original
MigrateFileFaultUnlinks(stage) ==
    /\ pc = "migrate_loop"
    /\ \E old_file \in op.todo :
         LET data == extracted[old_file]
             written == With(extracted, NewLegacyName(old_file), Migrated(data, old_file))
         IN /\ stage # "read" => (data.ok /\ data.company_name # legacy_company)
            /\ CASE stage \in {"read", "write", "write_partial"} ->
                      /\ op' = [op EXCEPT !.todo = @ \ {old_file}, !.seen = @ \cup {old_file},
                                          !.old = @ \cup {old_file}]
                      /\ UNCHANGED <<extracted, backup>>
                 [] stage = "copy" ->
                      /\ extracted' = Without(written, old_file)
                      /\ op' = [op EXCEPT !.todo = @ \ {old_file}, !.seen = @ \cup {old_file},
                                   !.old = @ \cup {old_file},
                                          !.migrated = @ + 1]
                      /\ UNCHANGED backup
                 [] stage = "unlink" ->
                      /\ extracted' = written
                      /\ backup' = With(backup, old_file, data)
                      /\ op' = [op EXCEPT !.todo = @ \ {old_file}, !.seen = @ \cup {old_file},
                                   !.old = @ \cup {old_file},
                                          !.migrated = @ + 1]
    /\ UNCHANGED <<companies, store, pdfs, pdfdirs, selected, financial_context,
                   warned, pc, last, snap, tc>>
    /\ UNCHANGED sessvars
    /\ UNCHANGED registered

\* one iteration that raises an I/O error: at the read, at the open of the
\* new file (write), inside json.dump with a partial new file left behind
\* (write_partial), at the backup copy or at the unlink
MigrateFileFault(stage) ==
    /\ pc = "migrate_loop"
    /\ \E old_file \in op.todo :
         LET data == extracted[old_file]
             new_name == NewLegacyName(old_file)
             written == With(extracted, new_name, Migrated(data, old_file))
             failed == [op EXCEPT !.todo = @ \ {old_file}, !.seen = @ \cup {old_file},
                                  !.old = @ \cup {old_file}]
         IN /\ stage # "read" => (data.ok /\ data.company_name # legacy_company)
            /\ CASE stage = "read" ->
                      /\ op' = failed
                      /\ UNCHANGED <<extracted, backup>>
                 [] stage = "write" ->
                      /\ op' = failed
                      /\ UNCHANGED <<extracted, backup>>
                 [] stage = "write_partial" ->
                      /\ extracted' = With(extracted, new_name, Unreadable)
                      /\ op' = failed
                      /\ UNCHANGED backup
                 [] stage = "copy" ->
                      /\ extracted' = written
                      /\ op' = [failed EXCEPT !.migrated = @ + 1]
                      /\ UNCHANGED backup
                 [] stage = "unlink" ->
                      /\ extracted' = written
                      /\ backup' = With(backup, old_file, data)
                      /\ op' = [failed EXCEPT !.migrated = @ + 1]
    /\ UNCHANGED <<companies, store, pdfs, pdfdirs, selected, financial_context,
                   warned, pc, last, snap, tc>>
    /\ UNCHANGED sessvars
    /\ UNCHANGED registered

\* lines 137-140, the rest of init_session_state, and the first run of main()
\* down to line 616, which fills the empty context cache
MigrateFinish ==
    /\ pc = "migrate_loop"
    /\ op.todo = {}
    /\ companies' = IF op.migrated > 0
                    THEN update_company_file_count(companies, store, legacy_company)
                    ELSE companies
    /\ last' = Done("migrate", op.migrated, op.old, op.seen)
    /\ \E slack \in Slacks(full_context(store, selected), MAX_CONTEXT_TOKENS) :
         LET r == get_selected_companies_context(store, selected, slack)
         IN /\ financial_context' = r.context
            /\ warned' = r.warning
    /\ pc' = "idle"
    /\ op' = NoOp
    /\ UNCHANGED <<store, extracted, backup, pdfs, pdfdirs, selected, snap, tc>>
    /\ UNCHANGED sessvars
    /\ registered' = registered \cup DOMAIN companies'

\* the process is killed inside rename_company or auto_migrate_legacy_data
Crash ==
    /\ pc \in {"rename_loop", "rename_unlink", "migrate_loop"}
    /\ last' = Done("crash", op.kind, op.old, op.new)
    /\ pc' = "new"
    /\ op' = NoOp
    /\ selected' = <<>>
    /\ financial_context' = EmptyContext
    /\ warned' = FALSE
    /\ UNCHANGED <<companies, store, extracted, backup, pdfs, pdfdirs, snap, tc>>
    /\ session' = NoSession
    /\ UNCHANGED <<history, now, stamp, api_key>>
    /\ UNCHANGED registered

(***************************************************************************)
(* Selection handlers of main() and the refresh button                     *)
(***************************************************************************)
Remove(q, x) == SelectSeq(q, LAMBDA y : y # x)

\* a checkbox changes: lines 510-515
ToggleCompany(company) ==
    /\ Idle
    /\ company \in DOMAIN companies
    /\ selected' = IF company \in Range(selected) THEN Remove(selected, company)
                   ELSE Append(selected, company)
    /\ Len(selected') <= MaxSelected
    /\ UNCHANGED <<companies, store, extracted, backup, pdfs, pdfdirs,
                   financial_context, warned, pc, op, last, snap, tc>>
    /\ UNCHANGED sessvars
    /\ UNCHANGED registered

\* the select-all button (lines 494-496): companies.copy(), the sorted names
SelectAll ==
    /\ Idle
    /\ DOMAIN companies # {}
    /\ selected' = get_company_folders(companies)
    /\ Len(selected') <= MaxSelected
    /\ UNCHANGED <<companies, store, extracted, backup, pdfs, pdfdirs,
                   financial_context, warned, pc, op, last, snap, tc, registered>>
    /\ UNCHANGED sessvars

\* the clear button (lines 498-500)
ClearSelection ==
    /\ Idle
    /\ DOMAIN companies # {}
    /\ selected' = <<>>
    /\ UNCHANGED <<companies, store, extracted, backup, pdfs, pdfdirs,
                   financial_context, warned, pc, op, last, snap, tc, registered>>
    /\ UNCHANGED sessvars

\* line 517-519: financial_context = get_selected_companies_context()
Refresh ==
    /\ Idle
    /\ DOMAIN companies # {}
    /\ \E slack \in Slacks(full_context(store, selected), MAX_CONTEXT_TOKENS) :
         LET r == get_selected_companies_context(store, selected, slack)
         IN /\ financial_context' = r.context
            /\ warned' = r.warning
    /\ last' = Done("refresh", TRUE, None, None)
    /\ snap' = NoSnap
    /\ UNCHANGED <<companies, store, extracted, backup, pdfs, pdfdirs, selected,
                   pc, op, tc>>
    /\ UNCHANGED sessvars
    /\ UNCHANGED registered

(***************************************************************************)
(* ClaudeClient.ask and the conversation handlers of main()                *)
(***************************************************************************)
max_retries == 3

\* what ask returns when the last attempt is rate limited (lines 71-77), what
\* it returns on an APIError (line 80), and a model answer
Degraded == <<"degraded">>
ApiErrorText == <<"api", "error">>
Answer == <<"answer">>

\* line 80 for an APIError whose message reports a context too long for the
\* model: the same prefix, then str(e), which holds "too long"
ApiErrorTooLong == ApiErrorText \o <<"prompt", "too long">>

\* what the chat handler records when ask raises (lines 656-662): the
\* remediation message when "too long" is in str(e), else the error text
TooLongText == <<"too", "long">>
ErrorText == <<"error">>

\* wait_time = (attempt + 1) * 30
wait_time(attempt) == (attempt + 1) * 30

\* the outcomes of one client.messages.create(...) with response.content[0].text:
\* a text, a RateLimitError, another APIError, or an exception that is no
\* APIError; the message of either exception may hold "too long"
Outcomes == {"text", "rate_limit", "api_error", "api_error_too_long",
             "other", "other_too_long"}

\* the request failed because the context is too long for the model
TooLong(outcome) == outcome \in {"api_error_too_long", "other_too_long"}

\* the 4-digit years a question mentions
YearSymbols == {"2022", "2023"}
Years(question) == Range(question) \cap YearSymbols

\* main() evaluates list_chat_sessions() in the sidebar on every run: a run
\* reaches a handler only when every session file can be read
Runs == pc = "idle" /\ ~Raises(history, DOMAIN history)

\* lines 635-645: the question is appended, the context is assembled
AskStart(prompt) ==
    /\ Runs
    /\ Len(session.messages) + 2 <= MaxMessages
    /\ stamp < MaxSaves
    /\ IF ~session.client
       THEN /\ last' = Done("ask_refused", None, session.messages, None)
            /\ UNCHANGED <<session, pc, op, financial_context, warned>>
       ELSE /\ session' = [session EXCEPT !.messages = Append(@, Msg("user", prompt))]
            /\ \E slack \in Slacks(full_context(store, selected), MAX_CONTEXT_TOKENS) :
                 LET r == get_selected_companies_context(store, selected, slack)
                 IN /\ op' = [kind |-> "ask", prompt |-> prompt,
                              before |-> session.messages,
                              history |-> session.messages, context |-> r.context,
                              attempt |-> 0, requests |-> 0, limited |-> 0,
                              sleeps |-> <<>>, outcome |-> "",
                              response |-> None, raised |-> FALSE]
                    /\ warned' = r.warning
            /\ pc' = "ask"
            /\ UNCHANGED <<last, financial_context>>
    /\ snap' = NoSnap
    /\ UNCHANGED <<companies, store, extracted, backup, pdfs, pdfdirs, selected, tc,
                   history, now, stamp, api_key, registered>>

\* lines 640-647 when get_selected_companies_context raises on a read of the
\* Artifact Store (an I/O error, a file json.load cannot read): the question
\* is already appended, the call is outside the try of line 649, and the run
\* ends there with st.session_state kept
AskStartRaises(prompt) ==
    /\ Runs
    /\ session.client
    /\ Len(session.messages) + 3 <= MaxMessages
    /\ DOMAIN store # {}
    /\ session' = [session EXCEPT !.messages = Append(@, Msg("user", prompt))]
    /\ last' = Done("ask_raised", None, session.messages, None)
    /\ snap' = NoSnap
    /\ UNCHANGED <<companies, store, extracted, backup, pdfs, pdfdirs, selected,
                   financial_context, warned, pc, op, tc, history, now, stamp, api_key,
                   registered>>

\* the retry loop without the return of its last turn: the third rate
\* limited attempt sleeps as well, the loop ends and ask returns None
RequestFallsThrough(outcome) ==
    /\ pc = "ask"
    /\ op.attempt < max_retries
    /\ LET sent == [op EXCEPT !.requests = @ + 1, !.outcome = outcome] IN
       CASE outcome = "text" ->
              /\ op' = [sent EXCEPT !.response = Answer]
              /\ pc' = "ask_done"
         [] outcome = "rate_limit" /\ op.attempt < max_retries - 1 ->
              /\ op' = [sent EXCEPT !.attempt = @ + 1, !.limited = @ + 1,
                                    !.sleeps = Append(@, wait_time(op.attempt))]
              /\ UNCHANGED pc
         [] outcome = "rate_limit" /\ op.attempt >= max_retries - 1 ->
              /\ op' = [sent EXCEPT !.attempt = @ + 1, !.limited = @ + 1,
                                    !.sleeps = Append(@, wait_time(op.attempt))]
              /\ pc' = "ask_done"
         [] outcome = "api_error" ->
              /\ op' = [sent EXCEPT !.response = ApiErrorText]
              /\ pc' = "ask_done"
         [] outcome = "api_error_too_long" ->
              /\ op' = [sent EXCEPT !.response = ApiErrorTooLong]
              /\ pc' = "ask_done"
         [] OTHER ->
              /\ op' = [sent EXCEPT !.raised = TRUE,
                                    !.response = IF outcome = "other_too_long"
                                                 THEN TooLongText ELSE ErrorText]
              /\ pc' = "ask_done"
    /\ UNCHANGED <<companies, store, extracted, backup, pdfs, pdfdirs, selected,
                   financial_context, warned, last, snap, tc, registered>>
    /\ UNCHANGED sessvars

\* one turn of the retry loop of ClaudeClient.ask (lines 55-80): the request,
\* then the return, the sleep or the exception that leaves ask
Request(outcome) ==
    /\ pc = "ask"
    /\ op.attempt < max_retries
    /\ LET sent == [op EXCEPT !.requests = @ + 1, !.outcome = outcome] IN
       CASE outcome = "text" ->
              /\ op' = [sent EXCEPT !.response = Answer]
              /\ pc' = "ask_done"
         [] outcome = "rate_limit" /\ op.attempt < max_retries - 1 ->
              /\ op' = [sent EXCEPT !.attempt = @ + 1, !.limited = @ + 1,
                                    !.sleeps = Append(@, wait_time(op.attempt))]
              /\ UNCHANGED pc
         [] outcome = "rate_limit" /\ op.attempt >= max_retries - 1 ->
              /\ op' = [sent EXCEPT !.limited = @ + 1, !.response = Degraded]
              /\ pc' = "ask_done"
         [] outcome = "api_error" ->
              /\ op' = [sent EXCEPT !.response = ApiErrorText]
              /\ pc' = "ask_done"
         [] outcome = "api_error_too_long" ->
              /\ op' = [sent EXCEPT !.response = ApiErrorTooLong]
              /\ pc' = "ask_done"
         [] OTHER ->
              /\ op' = [sent EXCEPT !.raised = TRUE,
                                    !.response = IF outcome = "other_too_long"
                                                 THEN TooLongText ELSE ErrorText]
              /\ pc' = "ask_done"
    /\ UNCHANGED <<companies, store, extracted, backup, pdfs, pdfdirs, selected,
                   financial_context, warned, last, snap, tc, registered>>
    /\ UNCHANGED sessvars

\* the chat handler without its try/except: an exception of ask ends the run
\* before the append and the save
AskFinishLosesTurn ==
    /\ pc = "ask_done"
    /\ LET messages == Append(session.messages, Msg("assistant", op.response)) IN
       /\ session' = IF op.raised THEN session ELSE [session EXCEPT !.messages = messages]
       /\ history' = IF op.raised THEN history
                     ELSE save_chat_history(history, messages, session.current, stamp)
    /\ stamp' = stamp + 1
    /\ last' = Done("ask", [prompt |-> op.prompt, response |-> op.response,
                            raised |-> op.raised, outcome |-> op.outcome],
                    op.before, op.context)
    /\ pc' = "idle"
    /\ op' = NoOp
    /\ UNCHANGED <<companies, store, extracted, backup, pdfs, pdfdirs, selected,
                   financial_context, warned, snap, tc, now, api_key, registered>>

\* lines 647-666: the answer, or the text recorded for the exception, is
\* appended and the session is saved
AskFinish ==
    /\ pc = "ask_done"
    /\ LET messages == Append(session.messages, Msg("assistant", op.response)) IN
       /\ session' = [session EXCEPT !.messages = messages]
       /\ history' = save_chat_history(history, messages, session.current, stamp)
    /\ stamp' = stamp + 1
    /\ last' = Done("ask", [prompt |-> op.prompt, response |-> op.response,
                            raised |-> op.raised, outcome |-> op.outcome],
                    op.before, op.context)
    /\ pc' = "idle"
    /\ op' = NoOp
    /\ UNCHANGED <<companies, store, extracted, backup, pdfs, pdfdirs, selected,
                   financial_context, warned, snap, tc, now, api_key, registered>>

\* the process is killed while the chat handler runs: during the model call,
\* or inside save_chat_history after open(filepath, "w") has emptied the file
Kill(in_save) ==
    /\ pc = IF in_save THEN "ask_done" ELSE "ask"
    /\ history' = IF in_save THEN With(history, session.current, BrokenFile) ELSE history
    /\ last' = Done("kill", in_save, op.before, session.current)
    /\ session' = NoSession
    /\ pc' = "new"
    /\ op' = NoOp
    /\ selected' = <<>>
    /\ financial_context' = EmptyContext
    /\ warned' = FALSE
    /\ snap' = NoSnap
    /\ UNCHANGED <<companies, store, extracted, backup, pdfs, pdfdirs, tc, now, stamp,
                   api_key, registered>>

\* a start over a session file that cannot be read: list_chat_sessions raises
\* in init_session_state and the run ends there
SessionStartRaises ==
    /\ pc = "new"
    /\ Raises(history, DOMAIN history)
    /\ last.op # "init_raised"
    /\ last' = Done("init_raised", None, None, None)
    /\ UNCHANGED <<companies, store, extracted, backup, pdfs, pdfdirs, selected,
                   financial_context, warned, pc, op, snap, tc, registered>>
    /\ UNCHANGED sessvars

\* the new conversation button (lines 577-582)
NewConversation ==
    /\ Runs
    /\ stamp < MaxSaves
    /\ history' = IF session.messages # <<>>
                  THEN save_chat_history(history, session.messages, session.current, stamp)
                  ELSE history
    /\ stamp' = IF session.messages # <<>> THEN stamp + 1 ELSE stamp
    /\ session' = [session EXCEPT !.current = now, !.messages = <<>>]
    /\ last' = Done("new_conversation", now, session.current, session.messages)
    /\ snap' = NoSnap
    /\ UNCHANGED <<companies, store, extracted, backup, pdfs, pdfdirs, selected,
                   financial_context, warned, pc, op, tc, now, api_key, registered>>

\* load_session (lines 387-393): the history directory and st.session_state
\* after it, and whether it saved
load_session(h, sess, session_id, t) ==
    LET flushed == IF sess.messages # <<>>
                   THEN save_chat_history(h, sess.messages, sess.current, t)
                   ELSE h
    IN [history |-> flushed,
        session |-> [sess EXCEPT !.current = session_id,
                                 !.messages = load_chat_history(flushed, session_id)],
        saved |-> sess.messages # <<>>]

\* the button of a listed session (lines 602-604)
LoadSession(sid) ==
    /\ Runs
    /\ stamp < MaxSaves
    /\ sid \in DOMAIN history
    /\ LET r == load_session(history, session, sid, stamp) IN
       /\ history' = r.history
       /\ session' = r.session
       /\ stamp' = IF r.saved THEN stamp + 1 ELSE stamp
    /\ last' = Done("load_session", sid, session.current, session.messages)
    /\ snap' = NoSnap
    /\ UNCHANGED <<companies, store, extracted, backup, pdfs, pdfdirs, selected,
                   financial_context, warned, pc, op, tc, now, api_key, registered>>

\* the delete button of a listed session (lines 607-609); last keeps the
\* messages the deleted file held
DeleteSession(sid) ==
    /\ Runs
    /\ sid \in DOMAIN history
    /\ history' = delete_chat_history(history, sid)
    /\ last' = Done("delete_session", sid, session.current, history[sid].messages)
    /\ snap' = NoSnap
    /\ UNCHANGED <<companies, store, extracted, backup, pdfs, pdfdirs, selected,
                   financial_context, warned, pc, op, tc, session, now, stamp, api_key,
                   registered>>

\* a second of wall-clock time passes
Tick ==
    /\ now < MaxClock
    /\ now' = now + 1
    /\ UNCHANGED <<companies, store, extracted, backup, pdfs, pdfdirs, selected,
                   financial_context, warned, pc, op, last, snap, tc, history, session,
                   stamp, api_key, registered>>

(***************************************************************************)
(* truncate_context called on its own                                      *)
(***************************************************************************)
\* tc holds the arguments of a call; the call fills in the result
TruncateCall ==
    /\ ~tc.called
    /\ \E slack \in Slacks(MkContext(<<>>, tc.len), tc.max_tokens) :
         tc' = [tc EXCEPT !.called = TRUE,
                          !.result = truncate_context(MkContext(<<>>, tc.len),
                                                      tc.max_tokens, slack)]
    /\ UNCHANGED <<companies, store, extracted, backup, pdfs, pdfdirs, selected,
                   financial_context, warned, pc, op, last, snap>>
    /\ UNCHANGED sessvars
    /\ UNCHANGED registered

(***************************************************************************)
(* Initial states                                                          *)
(***************************************************************************)
MaxLegacy == 2          \* files found in extracted_data at the first start

LegacyRec(cn, ok) ==
    [ok |-> ok, company_name |-> cn, original_filename |-> None,
     text_content |-> 5, tables |-> 0, text |-> NoText, migrated_from_legacy |-> FALSE]

\* what a file left in extracted_data by an earlier version may hold: a record
\* without group, a record tagged with the legacy group, an unreadable file
LegacyRecs == {LegacyRec(None, TRUE), LegacyRec(legacy_company, TRUE), LegacyRec(None, FALSE)}

\* two plain names, one with the prefix of a group that may be registered,
\* one that is the target name of the migration of a.json
LegacyNames == {<<"a", ".", "json">>, <<"b", ".", "json">>,
                <<"A", "_", "a", ".", "json">>, <<"L", "_", "a", ".", "json">>}

\* the directories of up to MaxLegacy such files; only the migration writes
\* the legacy tag, and it writes it under the legacy prefix
LegacyDirs ==
    {dir \in UNION {[D -> LegacyRecs] :
                        D \in {E \in SUBSET LegacyNames : Cardinality(E) <= MaxLegacy}} :
        \A f \in DOMAIN dir :
            (dir[f].ok /\ dir[f].company_name = legacy_company)
                => startswith(f, legacy_company \o <<US>>)}

NoResult == [context |-> EmptyContext, was_truncated |-> FALSE]

TC0 == [len |-> 0, max_tokens |-> 0, called |-> TRUE, result |-> NoResult]

\* the group names the records of a directory carry; a record gets its name
\* from a group that was registered when it was written
Owners(dir) ==
    {dir[f].company_name : f \in {g \in DOMAIN dir : dir[g].ok /\ dir[g].company_name # None}}

InitRest ==
    /\ store = Empty
    /\ backup = Empty
    /\ pdfs = {}
    /\ pdfdirs = {}
    /\ selected = <<>>
    /\ financial_context = EmptyContext
    /\ warned = FALSE
    /\ pc = "new"
    /\ op = NoOp
    /\ last = [op |-> "init", ret |-> None, a |-> None, b |-> None,
               prev |-> "", prevret |-> 0]
    /\ snap = NoSnap
    /\ registered = DOMAIN companies \cup Owners(extracted)

\* no stored conversation, the API key set
NoChat ==
    /\ history = Empty
    /\ session = NoSession
    /\ now = 0
    /\ stamp = 0
    /\ api_key = TRUE

\* a first start: nothing stored, or one file of an earlier version
Init ==
    /\ companies = Empty
    /\ extracted \in {Empty, [f \in {<<"a", ".", "json">>} |-> LegacyRec(None, TRUE)]}
    /\ tc = TC0
    /\ InitRest
    /\ NoChat

\* a first start of this version over the files of an earlier one
InitMigrate ==
    /\ companies \in {Empty, [c \in {NameA} |-> Entry(0, FALSE)],
                      [c \in {legacy_company} |-> Entry(0, TRUE)]}
    /\ extracted \in LegacyDirs
    /\ tc = TC0
    /\ InitRest
    /\ NoChat

\* the arguments of one call of truncate_context
InitTruncate ==
    /\ companies = Empty
    /\ extracted = Empty
    /\ tc \in [len : 0..MaxTruncLen, max_tokens : 0..MaxTruncBudget,
                called : {FALSE}, result : {NoResult}]
    /\ InitRest
    /\ NoChat

\* a first start with no stored conversation, with or without an API key
InitChat ==
    /\ companies = Empty
    /\ extracted = Empty
    /\ tc = TC0
    /\ InitRest
    /\ history = Empty
    /\ session = NoSession
    /\ now = 0
    /\ stamp = 0
    /\ api_key \in BOOLEAN

(***************************************************************************)
(* Inputs of the handlers                                                  *)
(***************************************************************************)
CompanyInputs == {NameA, legacy_company}

NewNames == {NameN}

UploadInputs == {Upl(FileA, TRUE, 5, 0), Upl(FileAV, TRUE, 5, 0)}

\* a short document, and one whose tables alone exceed the token budget
ContextUploads == {Upl(FileA, TRUE, 5, 0), Upl(FileAV, TRUE, 12000, 700000)}

Batches(files) == UNION {[1..n -> files] : n \in 1..MaxBatch}

AllFiles == UNION {CompanyFileSet(store, c) : c \in DOMAIN companies}

(***************************************************************************)
(* Specifications                                                          *)
(***************************************************************************)
\* the first run of main() of a session
Startup == SessionStart \/ MigrateFile \/ MigrateFinish

Session == Startup \/ NewSession

Rename ==
    \/ \E new_name \in NewNames : RenameStart(legacy_company, new_name)
    \/ RenameCopy
    \/ RenameUnlink
    \/ RenameFinish

\* registry, Artifact Store and stored PDFs
Next ==
    \/ Startup
    \/ \E c \in CompanyInputs : AddCompany(c)
    \/ \E c \in DOMAIN companies, b \in Batches(UploadInputs) : Upload(c, b)
    \/ \E c \in DOMAIN companies, f \in AllFiles : DeleteFile(c, f)
    \/ \E c \in DOMAIN companies : DeleteGroup(c)
    \/ Rename

Spec == Init /\ [][Next]_vars

\* selection and context assembly
NextContext ==
    \/ Session
    \/ \E c \in {NameA, NameAB} : AddCompany(c)
    \/ \E c \in DOMAIN companies, b \in Batches(ContextUploads) : Upload(c, b)
    \/ \E c \in DOMAIN companies : ToggleCompany(c)
    \/ SelectAll
    \/ ClearSelection
    \/ Refresh

SpecContext == Init /\ [][NextContext]_vars

\* legacy migration over the files of an earlier version
SpecMigrate == InitMigrate /\ [][Session]_vars

FaultStages == {"read", "write", "write_partial", "copy", "unlink"}

\* the same with I/O errors in the loop
NextMigrateFault ==
    \/ Session
    \/ \E stage \in FaultStages : MigrateFileFault(stage)

SpecMigrateFault == InitMigrate /\ [][NextMigrateFault]_vars

\* rename_company with I/O errors and process kills
NextRenameFault ==
    \/ Startup
    \/ AddCompany(legacy_company)
    \/ \E b \in Batches({Upl(FileA, TRUE, 5, 0)}) : Upload(legacy_company, b)
    \/ Rename
    \/ RenameFault
    \/ Crash

SpecRenameFault == Init /\ [][NextRenameFault]_vars

\* a question without a year, and one that mentions 2023
Question == <<"q">>
Question2023 == <<"q", "2023">>

\* a request answered, rate limited, or ended by an exception ask lets through
ChatOutcomes == {"text", "rate_limit", "other"}

\* the conversation handlers, the model client and process kills
NextChat ==
    \/ SessionStart
    \/ MigrateFinish
    \/ NewSession
    \/ SessionStartRaises
    \/ AskStart(Question)
    \/ \E outcome \in ChatOutcomes : Request(outcome)
    \/ AskFinish
    \/ \E in_save \in BOOLEAN : Kill(in_save)
    \/ NewConversation
    \/ \E sid \in DOMAIN history : LoadSession(sid)
    \/ \E sid \in DOMAIN history : DeleteSession(sid)
    \/ Tick

SpecChat == InitChat /\ [][NextChat]_vars

\* the chat handler over every outcome of a request; a request ends (the SDK
\* call returns or raises, time.sleep returns), so the retry loop is fair
NextClient ==
    \/ SessionStart
    \/ MigrateFinish
    \/ NewSession
    \/ AskStart(Question)
    \/ \E outcome \in Outcomes : Request(outcome)
    \/ AskFinish

SpecClient ==
    /\ InitChat
    /\ [][NextClient]_vars
    /\ WF_vars(\E outcome \in Outcomes : Request(outcome))

\* the statements of two years of one group
YearUploads == {Upl(File2022, TRUE, 5, 0), Upl(File2023, TRUE, 5, 0)}

\* questions over the uploaded statements of a group
NextYear ==
    \/ SessionStart
    \/ MigrateFinish
    \/ AddCompany(NameA)
    \/ \E b \in Batches(YearUploads) : Upload(NameA, b)
    \/ \E c \in DOMAIN companies : ToggleCompany(c)
    \/ \E q \in {Question, Question2023} : AskStart(q)
    \/ \E outcome \in ChatOutcomes : Request(outcome)
    \/ AskFinish

SpecYear == InitChat /\ [][NextYear]_vars

\* renames of the legacy group to a name that starts with its own name and
\* "_", and of a legacy group registered again afterwards
NextRenameOverlap ==
    \/ Session
    \/ AddCompany(legacy_company)
    \/ \E b \in Batches({Upl(FileA, TRUE, 5, 0)}) : Upload(legacy_company, b)
    \/ \E new_name \in {legacy_company \o <<"_", "B">>, NameN} :
          RenameStart(legacy_company, new_name)
    \/ RenameCopy
    \/ RenameUnlink
    \/ RenameFinish

SpecRenameOverlap == Init /\ [][NextRenameOverlap]_vars

\* a PDF process_pdf raises on, and two it can read
FailingUploads == {Upl(FileA, FALSE, 0, 0), Upl(FileA, TRUE, 5, 0), Upl(FileAV, TRUE, 5, 0)}

\* uploads of batches in which a file may fail
NextUpload ==
    \/ Session
    \/ \E c \in CompanyInputs : AddCompany(c)
    \/ \E c \in DOMAIN companies,
          b \in UNION {[1..n -> FailingUploads] : n \in 1..MaxFailBatch} : Upload(c, b)

SpecUpload == Init /\ [][NextUpload]_vars

\* turns of one conversation over stored artifacts, with turns that end
\* before the model call, reloads of the session and restarts
NextTurn ==
    \/ SessionStart
    \/ MigrateFinish
    \/ NewSession
    \/ AddCompany(NameA)
    \/ \E b \in Batches({Upl(FileA, TRUE, 5, 0)}) : Upload(NameA, b)
    \/ AskStart(Question)
    \/ AskStartRaises(Question)
    \/ \E outcome \in {"text", "other"} : Request(outcome)
    \/ AskFinish
    \/ \E sid \in DOMAIN history : LoadSession(sid)

SpecTurn == InitChat /\ [][NextTurn]_vars

SpecTruncate == InitTruncate /\ [][TruncateCall]_vars

(***************************************************************************)
(* Properties                                                              *)
(***************************************************************************)

\* C6: when the estimated tokens of the input exceed the budget,
\* truncate_context reports was_truncated, the kept prefix is estimated at no
\* more than the budget, and the returned string at no more than the budget
\* plus the estimate of the truncation notice.
TruncationBound ==
    (tc.called /\ estimate_tokens(tc.len) > tc.max_tokens) =>
        /\ tc.result.was_truncated
        /\ estimate_tokens(tc.result.context.kept) <= tc.max_tokens
        /\ estimate_tokens(ContextLen(tc.result.context))
             <= tc.max_tokens + estimate_tokens(NOTICE_LEN)

\* a long input cut to a non-empty prefix that is a whole number of tokens
\* below the budget's edge
TruncationBoundWitness ==
    /\ tc.called
    /\ estimate_tokens(tc.len) > tc.max_tokens
    /\ tc.max_tokens > 0
    /\ tc.result.was_truncated
    /\ tc.result.context.kept > 0
    /\ tc.result.context.kept < tc.len

\* the keys of a store that belong to a group by their prefix
KeysOf(st, name) == {k \in Range(list_saved_files(st)) : startswith(k, name \o <<US>>)}

\* C1: when rename_company(old, new) has returned True for a group with N
\* artifacts in the Artifact Store, the listing holds no key prefixed old_,
\* exactly N keys prefixed new_, and each of those names the group new.
RenameMovesArtifacts ==
    (Idle /\ last.op = "rename" /\ last.ret = TRUE) =>
        /\ KeysOf(store, last.a) = {}
        /\ Cardinality(KeysOf(store, last.b)) = Cardinality(KeysOf(snap.store, last.a))
        /\ \A k \in KeysOf(store, last.b) : store[k].company_name = last.b

\* C2: after a kill inside rename_company(old, new) no record is on disk
\* under its old name and under its new name with different group names.
RenameCrashNoDuplicate ==
    (last.op = "crash" /\ last.ret = "rename") =>
        \A f \in GlobPrefixed(extracted, last.a) :
            LET g == ReplaceFirst(f, last.a \o <<US>>, last.b \o <<US>>) IN
            ~(/\ g \in DOMAIN extracted
              /\ extracted[g].company_name # extracted[f].company_name)

\* C3: when rename_company has returned False, the registry, the records and
\* the stored PDF folders are as they were before the call.
RenameFalseLeavesState ==
    (Idle /\ last.op = "rename" /\ last.ret = FALSE) => Persisted = snap

\* C4: a migration that runs right after a migration returns 0 and leaves
\* every record, the backup and the registry as they were.
MigrationIdempotent ==
    (Idle /\ last.op = "migrate" /\ last.prev = "migrate") =>
        /\ last.ret = 0
        /\ Persisted = snap

\* the first of the two runs moved at least one record
MigrationIdempotentWitness ==
    /\ Idle
    /\ last.op = "migrate"
    /\ last.prev = "migrate"
    /\ last.prevret > 0
    /\ backup # Empty

\* C5, first part: a legacy file whose iteration raised is still in
\* extracted_data while the migration runs and after it
FailedStay ==
    /\ pc = "migrate_loop" => \A f \in op.old : f \in DOMAIN extracted
    /\ (last.op = "migrate" /\ pc \in {"idle", "new"}) =>
           \A f \in last.a : f \in DOMAIN extracted

\* C5, second part: the loop goes on after a failure: when the migration is
\* over, every legacy file found at its start has had its iteration
AllHandled ==
    (last.op = "migrate" /\ pc \in {"idle", "new"}) =>
        last.b = LegacyFiles(snap.extracted, snap.companies)

\* C5, third part: a step of the migration removes a file only when the
\* backup then holds a copy of it
UnlinkAfterBackup ==
    \A f \in DOMAIN extracted :
        (pc = "migrate_loop" /\ f \notin DOMAIN extracted') =>
            (f \in DOMAIN backup' /\ backup'[f] = extracted[f])

TruncationSignalled == financial_context.notice => warned

\* the artifacts that match the selection; every artifact when it is empty
Matching(st, sel) ==
    IF sel = <<>> THEN DOMAIN st
    ELSE {k \in DOMAIN st : \E i \in 1..Len(sel) : startswith(k, sel[i] \o <<US>>)}

\* a header part names the artifact: the group and the original filename, or
\* the store key that is built from both
NamesArtifact(p, st, k) ==
    \/ (p.k = "header" /\ p.company_name = st[k].company_name
                       /\ p.original_filename = st[k].original_filename)
    \/ (p.k = "file_header" /\ p.key = k)

\* C8: the context before truncation holds, for every matching artifact, a
\* header naming it followed by its whole extracted text.
ContextHasFullText ==
    LET parts == full_context(store, selected).parts IN
    \A k \in Matching(store, selected) :
        \E i \in 1..(Len(parts) - 1) :
            /\ NamesArtifact(parts[i], store, k)
            /\ parts[i + 1].key = k
            /\ parts[i + 1].body = store[k].text_content

\* C9: after each completed upload, file delete, group delete, rename and
\* migration, the cached file_count of every group is the number of its
\* artifacts in the Artifact Store.
FileCountCached ==
    (Idle /\ last.op \in {"upload", "delete_file", "delete_group", "rename", "migrate"}) =>
        \A g \in DOMAIN companies :
            companies[g].file_count = Cardinality(KeysOf(store, g))

\* C10: the group delete removes the registry entry, every artifact of the
\* group from the listing and every stored PDF of the group.
GroupDeleteCascades ==
    (Idle /\ last.op = "delete_group") =>
        /\ last.a \notin DOMAIN companies
        /\ KeysOf(store, last.a) = {}
        /\ \A f \in pdfs : f[1] # last.a

(***************************************************************************)
(* Session recovery, switching and persistence                             *)
(***************************************************************************)
\* C11: the step of init_session_state on a fresh start (no current-session
\* pointer): with stored sessions, the current session becomes the one with
\* the greatest updated_at and the messages in memory are exactly its stored
\* messages; with none, the id is minted from the clock and the list is empty
RecoversLatest ==
    [][(pc = "new" /\ pc' = "migrate_loop" /\ session.current = NoId) =>
          IF DOMAIN history # {}
          THEN /\ session'.current \in DOMAIN history
               /\ \A j \in DOMAIN history :
                      history[j].updated_at <= history[session'.current].updated_at
               /\ session'.messages = history[session'.current].messages
          ELSE /\ session'.current = now
               /\ session'.current \notin DOMAIN history
               /\ session'.messages = <<>>]_vars

\* a fresh start over two stored conversations where the one saved last is
\* not the one created last
RecoversLatestWitness ==
    /\ pc = "migrate_loop"
    /\ Cardinality(DOMAIN history) >= 2
    /\ \E j \in DOMAIN history : j > session.current
    /\ session.messages # <<>>

\* C12: after a switch to another session, the stored messages of the
\* outgoing session are the message list that was in memory just before the
\* switch (last.a the outgoing id, last.b that list, last.ret the incoming id)
SwitchFlushesOutgoing ==
    (last.op = "load_session" /\ last.ret # last.a) =>
        load_chat_history(history, last.a) = last.b

\* C13: when the model-client call raised, at the end of the chat handler the
\* stored history of the current session is the message list held before the
\* question (last.a), then the question, then an assistant message recording
\* the failure
FailedTurnRecorded ==
    (last.op = "ask" /\ last.ret.raised /\ pc = "idle") =>
        /\ session.current \in DOMAIN history
        /\ history[session.current].ok
        /\ history[session.current].messages =
               last.a \o <<Msg("user", last.ret.prompt),
                           Msg("assistant", last.ret.response)>>
        /\ last.ret.response \in {ErrorText, TooLongText}
        /\ session.messages = history[session.current].messages

\* a second turn of a conversation has failed
FailedTurnRecordedWitness ==
    /\ last.op = "ask"
    /\ last.ret.raised
    /\ last.a # <<>>
    /\ pc = "idle"

\* C14: whenever the chat handler is suspended in the model call or has
\* ended, the stored record of the current session holds every message of
\* the list in memory
PersistedAfterAppend ==
    (pc = "ask" \/ (pc = "idle" /\ last.op = "ask")) =>
        /\ session.current \in DOMAIN history
        /\ history[session.current].messages = session.messages

IsPrefix(p, q) == Len(p) <= Len(q) /\ SubSeq(q, 1, Len(p)) = p

\* C15: a save never changes, reorders or drops what a session already
\* holds: as long as a session is not deleted, the message list stored
\* before a step is a prefix of the one stored after it
HistoryAppendOnly ==
    [][\A sid \in DOMAIN history \cap DOMAIN history' :
          (history[sid].ok /\ history'[sid].ok) =>
              IsPrefix(history[sid].messages, history'[sid].messages)]_vars

\* C16: a save is atomic under a kill: no stored session file is ever empty
\* or partial, and a start never fails over the stored sessions
SaveAtomic ==
    /\ \A sid \in DOMAIN history : history[sid].ok
    /\ last.op # "init_raised"

(***************************************************************************)
(* Artifact keys                                                           *)
(***************************************************************************)
\* the key of a record carrying a group name starts with that name and "_",
\* and the name is or was in the registry
KeyOwned(dir) ==
    \A k \in DOMAIN dir :
        (dir[k].ok /\ dir[k].company_name # None) =>
            /\ startswith(k, dir[k].company_name \o <<US>>)
            /\ dir[k].company_name \in registered

\* C17: in every reachable state, every artifact record with a group name,
\* in the Artifact Store and in the directory rename and migration work on,
\* has a key starting with "<group name>_" for a group that is or was in the
\* registry
ArtifactKeyPrefixed == KeyOwned(store) /\ KeyOwned(extracted)

\* an uploaded record, a migrated record that was renamed, and a group that
\* is no longer in the registry
ArtifactKeyPrefixedWitness ==
    /\ \E k \in DOMAIN store : store[k].company_name \notin DOMAIN companies
    /\ \E k \in DOMAIN extracted :
           extracted[k].ok /\ extracted[k].company_name = NameN

(***************************************************************************)
(* The context of a question                                               *)
(***************************************************************************)
\* the store holds artifacts of one group for both years
HoldsBothYears ==
    \E g \in DOMAIN companies :
        \A y \in YearSymbols :
            \E k \in DOMAIN store : store[k].company_name = g /\ Contains(k, y)

\* C18: with artifacts of one group for different years in the store, the
\* context the chat handler assembles for a question names only artifacts
\* whose key contains a year the question mentions; for a question that
\* mentions no year it is the context of the full selected set
YearsRestrictContext ==
    [][(pc = "idle" /\ pc' = "ask" /\ HoldsBothYears) =>
          LET mentioned == Years(op'.prompt)
              parts == op'.context.parts
          IN IF mentioned # {}
             THEN \A i \in 1..Len(parts) :
                      parts[i].key # None =>
                          \E y \in mentioned : Contains(parts[i].key, y)
             ELSE \E slack \in Slacks(full_context(store, selected), MAX_CONTEXT_TOKENS) :
                      op'.context =
                          get_selected_companies_context(store, selected, slack).context]_vars

\* C19: after a completed action that changed the selected groups, the cached
\* context is the context assembled from the new selection and the store
CacheFollowsSelection ==
    [][(pc = "idle" /\ pc' = "idle" /\ selected' # selected) =>
          \E slack \in Slacks(full_context(store', selected'), MAX_CONTEXT_TOKENS) :
              financial_context' =
                  get_selected_companies_context(store', selected', slack).context]_vars

(***************************************************************************)
(* ClaudeClient.ask                                                        *)
(***************************************************************************)
\* the requests issued and the sleeps taken so far are within the retry
\* budget: at most max_retries requests, sleeps of 30 then 60 seconds
WithinBudget ==
    /\ op.requests <= max_retries
    /\ op.sleeps \in {<<>>, <<30>>, <<30, 60>>}
    /\ Len(op.sleeps) <= op.limited

RemediationRecorded ==
    (pc = "idle" /\ last.op = "ask" /\ TooLong(last.ret.outcome)) =>
        /\ session.current \in DOMAIN history
        /\ LET messages == history[session.current].messages
           IN /\ messages # <<>>
              /\ messages[Len(messages)] = Msg("assistant", TooLongText)

(***************************************************************************)
(* Deleted sessions                                                        *)
(***************************************************************************)
\* C22: once the delete action has removed a session, a later handler that
\* is not a new question (a switch, a new conversation, another delete, a
\* restart) does not bring a session with that id (last.ret) and the
\* messages it held (last.b) back into the listing
DeletedStaysDeleted ==
    [][(last.op = "delete_session" /\ pc \in {"idle", "new"}) =>
          ~(/\ last.ret \in DOMAIN history'
            /\ history'[last.ret].ok
            /\ history'[last.ret].messages = last.b)]_vars

(***************************************************************************)
(* Overlapping group names                                                 *)
(***************************************************************************)
\* the header blocks a context holds for the artifact with key k
Blocks(context, k) ==
    {i \in 1..Len(context.parts) :
        context.parts[i].k = "header" /\ context.parts[i].key = k}

\* C23: for a non-empty selection, the context get_selected_companies_context
\* assembles holds at most one header-plus-text block for each artifact of
\* the store
EachArtifactOnce ==
    selected # <<>> =>
        \A slack \in Slacks(full_context(store, selected), MAX_CONTEXT_TOKENS) :
            \A k \in DOMAIN store :
                Cardinality(Blocks(get_selected_companies_context(store, selected,
                                                                 slack).context, k)) <= 1

\* the records of a directory that carry the name of a group other than name
OwnedByOthers(dir, name) ==
    {k \in DOMAIN dir : dir[k].ok /\ dir[k].company_name \notin {None, name}}

\* every such record of the directory before is in the directory after, under
\* the same key and with the same fields
KeepsOthers(before, after, name) ==
    \A k \in OwnedByOthers(before, name) : k \in DOMAIN after /\ after[k] = before[k]

\* C24: when rename_company(old, new) has ended, every artifact record that
\* carried the name of a group other than old when it started, in the
\* Artifact Store and in the directory rename_company works on, has kept its
\* key, its group name and its content
RenameKeepsOthers ==
    (Idle /\ last.op = "rename") =>
        /\ KeepsOthers(snap.store, store, last.a)
        /\ KeepsOthers(snap.extracted, extracted, last.a)

(***************************************************************************)
(* Deleting one file                                                       *)
(***************************************************************************)
\* the step is the file delete handler for the listed file f of group c
FileDeleteStep(c, f) ==
    /\ pc = "idle"
    /\ last'.op = "delete_file"
    /\ last'.a = c
    /\ last'.b = f
    /\ <<store', pdfs', last'>> # <<store, pdfs, last>>

\* C25: the file delete handler for a listed file of a group removes from the
\* Artifact Store exactly the artifact the file was listed from, removes the
\* stored PDF that artifact was extracted from, and leaves every other
\* artifact and stored PDF as it was
FileDeleteExact ==
    [][\A c \in DOMAIN companies : \A f \in CompanyFileSet(store, c) :
          FileDeleteStep(c, f) =>
              LET key == c \o <<US>> \o f \o JSON IN
              /\ DOMAIN store' = DOMAIN store \ {key}
              /\ \A k \in DOMAIN store' : store'[k] = store[k]
              /\ pdfs' = pdfs \ {<<store[key].company_name,
                                   store[key].original_filename>>}]_vars

(***************************************************************************)
(* Failed uploads                                                          *)
(***************************************************************************)
\* C26: a file for which save_company_file returned False leaves nothing
\* behind, so every stored PDF has an artifact record of its group with its
\* original filename
StoredPdfHasArtifact ==
    \A f \in pdfs :
        \E k \in DOMAIN store :
            store[k].company_name = f[1] /\ store[k].original_filename = f[2]

(***************************************************************************)
(* Roles of a conversation                                                 *)
(***************************************************************************)
\* user, assistant, user, ...
Alternates(messages) ==
    \A i \in 1..Len(messages) :
        messages[i].role = IF i % 2 = 1 THEN "user" ELSE "assistant"

\* C27: every stored session, and the list ask sends to the model (the
\* history it was given, then the question), alternates roles starting with
\* a user message
RolesAlternate ==
    /\ \A sid \in DOMAIN history :
           history[sid].ok => Alternates(history[sid].messages)
    /\ pc = "ask" => Alternates(op.history \o <<Msg("user", op.prompt)>>)

====
